---- MODULE Spec2Model ----
(***************************************************************************)
(* Blog generation pipeline of bl_Monkee: the client gateway functions     *)
(* (callGeminiProxy, callGeminiImageProxy), the backend /api/gemini-proxy  *)
(* handler, the six stage functions and the orchestrator generateFullBlog; *)
(* and the site crawler of the backend, crawlWebsite.                      *)
(*                                                                         *)
(* Texts are sequences of tokens.  A token is a record [k, a, b]: k is the *)
(* kind of markup, a and b its payload.  JSON texts are records naming the *)
(* syntactic class of the text and, for an object, its fields.             *)
(***************************************************************************)
EXTENDS Integers, Sequences, FiniteSets, TLC

VARIABLES
    client,       \* the Client passed to generateFullBlog
    pc,           \* position of the run (which await it is suspended at)
    progress,     \* messages passed to updateProgress, in order
    completed,    \* stage functions that have returned successfully, in order
    started,      \* stage functions that have been called, in order
    requests,     \* bodies POSTed to the gateway, in order
    lastCall,     \* the latest gateway exchange: response seen and outcome
    topic,        \* const topic (line 270)
    details,      \* value returned by generateBlogDetails (line 273)
    outline,      \* const outline (line 276)
    content,      \* let content of generateFullContent, then const content
    headings,     \* const headings (line 149)
    hi,           \* index in headings of the for-of loop (line 152)
    imageCount,   \* let imageCount (line 150)
    attempts,     \* calls of generateInBodyImage made by the loop, in order
    featured,     \* const featuredImageBase64 (line 282)
    post,         \* the BlogPost returned by generateFullBlog, or NoPost
    thrown,       \* the error generateFullBlog rejected with, or NoError
    gateway,      \* how the gateway answers: freely, or the same to the same request
    other,        \* the locals of a second run, suspended at its await, or NoRun
    web,          \* the web: the hrefs of the <a> elements of each page
    baseUrl,      \* const baseUrl of crawlWebsite (server.js line 70)
    queue,        \* const queue (line 69)
    crawledUrls,  \* const crawledUrls (line 68)
    currentUrl,   \* const currentUrl (line 73)
    cpc,          \* position of crawlWebsite
    fetched,      \* the fetches of crawlWebsite that have settled, in order
    expanded      \* the URLs whose links crawlWebsite has read, in order

\* the locals of the run that is executing
runVars == <<client, pc, progress, completed, started, requests, lastCall,
             topic, details, outline, content, headings, hi, imageCount,
             attempts, featured, post, thrown>>

crawlVars == <<web, baseUrl, queue, crawledUrls, currentUrl, cpc, fetched, expanded>>

\* what a step of the executing run cannot touch
outside == <<gateway, other, crawlVars>>

vars == <<runVars, outside>>

-----------------------------------------------------------------------------
(* Bounds *)

MaxHeadings == 3      \* H2/H3 headings in the body the model returns for content
MaxLinks == 2         \* <a> elements on the home page of the crawled site

-----------------------------------------------------------------------------
(* JavaScript values *)

Undefined == "<undefined>"
NoPost == [none |-> TRUE]
NoError == [none |-> TRUE]
NoCall == [none |-> TRUE]

\* obj.name of a parsed object: undefined when the property is absent
Prop(obj, name) == IF name \in DOMAIN obj THEN obj[name] ELSE Undefined

\* a || b on strings and undefined: the empty string and undefined are falsy
OrElse(a, b) == IF a = Undefined \/ a = "" THEN b ELSE a

Tok(k, a, b) == [k |-> k, a |-> a, b |-> b]
WS == Tok("ws", "", "")
NL == Tok("nl", "", "")
FenceOpen == Tok("fence_html", "", "")
FenceClose == Tok("fence", "", "")
Para == Tok("p", "", "")

IsWS(t) == t.k \in {"ws", "nl"}

RECURSIVE TrimStart(_)
TrimStart(s) ==
    IF s # <<>> /\ IsWS(Head(s)) THEN TrimStart(Tail(s)) ELSE s

RECURSIVE TrimEnd(_)
TrimEnd(s) ==
    IF s # <<>> /\ IsWS(s[Len(s)]) THEN TrimEnd(SubSeq(s, 1, Len(s) - 1)) ELSE s

\* String.prototype.trim
Trim(s) == TrimEnd(TrimStart(s))

-----------------------------------------------------------------------------
(* Backend: POST /api/gemini-proxy (server.js) *)

\* what the generative-AI SDK may answer to generateImages
ImageBytes == {"IMG1", "IMG2"}
LibImageResults ==
    {[generatedImages |-> <<[image |-> [imageBytes |-> b]]>>] : b \in ImageBytes}
    \cup {[generatedImages |-> <<>>],                     \* an empty list
          [positivePromptSafetyAttributes |-> "none"],    \* no list at all
          [generatedImages |-> <<[image |-> [mimeType |-> "image/jpeg"]]>>],
          [generatedImages |-> <<[raiFilteredReason |-> "blocked"]>>]}

JsonResponse(status, statusText, body) ==
    [rejected |-> FALSE, status |-> status, statusText |-> statusText,
     json |-> TRUE, body |-> body]

\* res.status(500).json({error: 'Failed to call Gemini API.', details: error.message})
ProxyCatch(message) ==
    JsonResponse(500, "Internal Server Error",
                 [error |-> "Failed to call Gemini API.", details |-> message])

\* the image branch of the handler: lib is the SDK's result, or its exception
ImageBranch(lib) ==
    IF lib.throws THEN ProxyCatch(lib.message)
    ELSE IF "generatedImages" \in DOMAIN lib.result
            /\ Len(lib.result.generatedImages) > 0
         THEN LET first == lib.result.generatedImages[1] IN
              IF "image" \notin DOMAIN first
              THEN ProxyCatch("Cannot read properties of undefined")
              ELSE IF "imageBytes" \in DOMAIN first.image
                   THEN JsonResponse(200, "OK",
                            [imageBytes |-> first.image.imageBytes, success |-> TRUE])
                   \* JSON.stringify drops a property whose value is undefined
                   ELSE JsonResponse(200, "OK", [success |-> TRUE])
         ELSE ProxyCatch("Image generation failed to produce an image.")

\* the text branch of the handler
TextBranch(lib) ==
    IF lib.throws THEN ProxyCatch(lib.message)
    ELSE JsonResponse(200, "OK", [text |-> lib.result])

GeminiProxyHandler(req, keySet, lib) ==
    IF ~keySet
    THEN JsonResponse(500, "Internal Server Error",
                      [error |-> "Server-side Gemini API key not configured."])
    ELSE IF "isImageGeneration" \in DOMAIN req.config /\ req.config.isImageGeneration
         THEN ImageBranch(lib)
         ELSE TextBranch(lib)

-----------------------------------------------------------------------------
(* The HTTP exchange as the client's fetch sees it *)

LibThrow == [throws |-> TRUE, message |-> "quota exceeded"]
LibOk(r) == [throws |-> FALSE, result |-> r]

\* one exchange: the network rejects, an intermediary answers with an HTML
\* error page, or the backend handler answers
Exchanges(libResults) ==
    {[net |-> "reject", keySet |-> TRUE, lib |-> LibThrow],
     [net |-> "bad_gateway", keySet |-> TRUE, lib |-> LibThrow],
     [net |-> "ok", keySet |-> FALSE, lib |-> LibThrow],
     [net |-> "ok", keySet |-> TRUE, lib |-> LibThrow]}
    \cup {[net |-> "ok", keySet |-> TRUE, lib |-> LibOk(r)] : r \in libResults}

Fetch(req, env) ==
    CASE env.net = "reject" -> [rejected |-> TRUE]
      [] env.net = "bad_gateway" ->
            [rejected |-> FALSE, status |-> 502, statusText |-> "Bad Gateway",
             json |-> FALSE, body |-> [html |-> "<html>"]]
      [] OTHER -> GeminiProxyHandler(req, env.keySet, env.lib)

ResponseOk(response) == response.status >= 200 /\ response.status <= 299

-----------------------------------------------------------------------------
(* Client gateway functions (part_000 lines 6-61) *)

Fail(name, message) == [ok |-> FALSE, error |-> [name |-> name, message |-> message]]
Return(value) == [ok |-> TRUE, value |-> value]

\* lines 20-23 and 50-53: the message of the Error thrown for a non-ok response
BackendErrorMessage(response) ==
    LET errorData == IF response.json THEN response.body
                     ELSE [message |-> "Unknown error"]
    IN <<"Backend proxy error: ", ToString(response.status), " ",
         response.statusText, " - ", Prop(errorData, "message")>>

\* the try block of either function up to the parsed body
ProxyTry(response) ==
    IF response.rejected THEN Fail("TypeError", <<"Failed to fetch">>)
    ELSE IF ~ResponseOk(response)
         THEN Fail("Error", BackendErrorMessage(response))
         ELSE IF ~response.json
              THEN Fail("SyntaxError", <<"Unexpected token <">>)
              ELSE Return(response.body)

callGeminiProxy(response) ==
    LET r == ProxyTry(response) IN
    IF r.ok THEN r
    ELSE Fail("Error", <<"Failed to call Gemini API via proxy: ">> \o r.error.message)

callGeminiImageProxy(response) ==
    LET r == ProxyTry(response) IN
    IF r.ok
    THEN Return(OrElse(Prop(r.value, "imageBytes"), Prop(r.value, "text")))
    ELSE Fail("Error", <<"Failed to call Gemini Image API via proxy: ">> \o r.error.message)

-----------------------------------------------------------------------------
(* What the model behind the gateway may answer *)

TextTok(t) == Tok("text", t, "")
H2(t) == Tok("h2", t, "")
H3(t) == Tok("h3", t, "")
H1(t) == Tok("h1", t, "")
\* <a href="...">: the URL and the site it belongs to
Link(href, site) == Tok("a", href, site)

TopicTexts ==
    {<<TextTok("AI in retail")>>, <<NL, WS, TextTok("AI in retail"), NL>>}

OutlineTexts ==
    {<<TextTok("## Intro")>>, <<WS, TextTok("## Intro"), NL, WS>>}

\* a JSON text: its syntactic class and, for an object, its properties
JsonGarbage == [syntax |-> "garbage"]
JsonNull == [syntax |-> "null"]
JsonObject(fields) == [syntax |-> "object", fields |-> fields]

Null == [isNull |-> TRUE]

JSONParse(text) ==
    CASE text.syntax = "garbage" -> Fail("SyntaxError", <<"Unexpected token">>)
      [] text.syntax = "null" -> Return(Null)
      [] OTHER -> Return(text.fields)

Restrict(f, S) == [n \in S |-> f[n]]

RequiredDetails == {"title", "angle", "keywords"}
FullDetails == [title |-> "T", angle |-> "A", keywords |-> "k1,k2,k3,k4,k5"]

\* answers to the metadata request: the schema is a request to the model,
\* which may honour it, drop a required property, or not answer in JSON
DetailsTexts ==
    {JsonGarbage, JsonNull, JsonObject(FullDetails)}
    \cup {JsonObject(Restrict(FullDetails, RequiredDetails \ {n})) : n \in RequiredDetails}

HeadingTokens == {H2("A"), H3("B")}

\* a body with the headings hs: an opening paragraph, then the headings, a
\* paragraph under every other one (so headings also follow one another
\* directly)
RECURSIVE Sections(_, _)
Sections(hs, withPara) ==
    IF hs = <<>> THEN <<>>
    ELSE <<Head(hs)>> \o (IF withPara THEN <<Para>> ELSE <<>>)
         \o Sections(Tail(hs), ~withPara)

Body(hs) == <<Para>> \o Sections(hs, TRUE)

Bodies == {Body(hs) : hs \in UNION {[1..n -> HeadingTokens] : n \in 0..MaxHeadings}}

\* what the model may write against the instructions of the prompt (lines
\* 136, 141-143): the H1 title, a link to a page of the client's site that is
\* not in the list, a link where the list was empty; and what it may write
\* following them: a link from the list, a link to another site
OffPromptBodies ==
    {<<H1("T"), Para>>}
    \cup {<<Para, l, Para>> :
            l \in {Link("https://c1.example/x", "https://c1.example"),
                   Link("https://c2.example/a", "https://c2.example"),
                   Link("https://c2.example/x", "https://c2.example"),
                   Link("https://other.example/", "https://other.example")}}

\* the body as it is, or wrapped in a ```html fence
ContentTexts ==
    LET all == Bodies \cup OffPromptBodies
    IN all \cup {<<FenceOpen, NL>> \o b \o <<NL, FenceClose, NL>> : b \in all}

\* the prompt asks for at least 3 question/answer pairs (line 192)
MinFaqs == 3
Faq == [question |-> "Q", answer |-> "R"]
FaqTexts ==
    {JsonGarbage, JsonNull, JsonObject([other |-> "x"])}
    \cup {JsonObject([faqs |-> [i \in 1..MinFaqs |-> Faq]])}

-----------------------------------------------------------------------------
(* Stage functions (part_000 lines 63-266): each takes the response that   *)
(* its gateway call received                                               *)

Request(model, contents, config) ==
    [model |-> model, contents |-> contents, config |-> config]

ImageConfig ==
    [numberOfImages |-> "1", aspectRatio |-> "16:9", outputMimeType |-> "image/jpeg",
     isImageGeneration |-> TRUE]

ImageSuffix == "A cinematic, photorealistic, high-quality image"

findTrendingTopic(response) ==
    LET r == callGeminiProxy(response) IN
    IF r.ok THEN Return(Trim(r.value.text)) ELSE r

generateBlogDetails(response) ==
    LET r == callGeminiProxy(response) IN
    IF r.ok THEN JSONParse(r.value.text) ELSE r

generateOutline(response) ==
    LET r == callGeminiProxy(response) IN
    IF r.ok THEN Return(Trim(r.value.text)) ELSE r

generateInBodyImage(response) == callGeminiImageProxy(response)

generateFeaturedImage(response) == callGeminiImageProxy(response)

RECURSIVE FaqItems(_)
FaqItems(faqs) ==
    IF faqs = <<>> THEN <<>>
    ELSE <<H3(Head(faqs).question), Tok("p", Head(faqs).answer, "")>>
         \o FaqItems(Tail(faqs))

FaqHtml(faqs) ==
    <<NL, Tok("div", "faq-section", ""), H2("Frequently Asked Questions")>>
    \o FaqItems(faqs)
    \o <<Tok("/div", "", ""), Tok("script", "FAQPage", ToString(Len(faqs))), NL>>

\* a failure of the FAQ stage absorbed as an empty section
generateFaqSection_Caught(response) ==
    LET r == callGeminiProxy(response) IN
    IF ~r.ok THEN Return(<<>>)
    ELSE LET parsed == JSONParse(r.value.text) IN
         IF ~parsed.ok \/ parsed.value = Null \/ "faqs" \notin DOMAIN parsed.value
         THEN Return(<<>>)
         ELSE Return(FaqHtml(parsed.value.faqs))

generateFaqSection(response) ==
    LET r == callGeminiProxy(response) IN
    IF ~r.ok THEN r
    ELSE LET parsed == JSONParse(r.value.text) IN
         IF ~parsed.ok THEN parsed
         ELSE IF parsed.value = Null
              THEN Fail("TypeError", <<"Cannot destructure property 'faqs' of null">>)
              ELSE IF "faqs" \notin DOMAIN parsed.value
                   THEN Fail("TypeError", <<"Cannot read properties of undefined (reading 'map')">>)
                   ELSE Return(FaqHtml(parsed.value.faqs))

-----------------------------------------------------------------------------
(* Local post-processing of generateFullContent (lines 147-159) *)

\* .replace(/^```html|```$/g, '')
StripFence(s) ==
    LET a == IF s # <<>> /\ Head(s) = FenceOpen THEN Tail(s) ELSE s
    IN IF a # <<>> /\ a[Len(a)] = FenceClose THEN SubSeq(a, 1, Len(a) - 1) ELSE a

IsHeading(t) == t.k \in {"h2", "h3"}

\* content.match(/<h[23]>(.*?)<\/h[23]>/g) || []
MatchHeadings(s) == SelectSeq(s, IsHeading)

\* heading.replace(/<\/?h[23]>/g, '')
HeadingText(heading) == heading.a

ImageTag(imageBase64, headingText) == Tok("img", headingText, imageBase64)

\* String.prototype.replace with a string pattern: the first occurrence only
ReplaceFirst(s, pattern, replacement) ==
    LET found == {i \in 1..Len(s) : s[i] = pattern} IN
    IF found = {} THEN s
    ELSE LET i == CHOOSE j \in found : \A k \in found : j <= k
         IN SubSeq(s, 1, i - 1) \o replacement \o SubSeq(s, i + 1, Len(s))

\* client.sitemapUrls && client.sitemapUrls.length > 0 ? join : marker (line 143)
SitemapBlock(c) ==
    IF "sitemapUrls" \in DOMAIN c /\ Len(c.sitemapUrls) > 0
    THEN c.sitemapUrls
    ELSE <<"No sitemap URLs available.">>

-----------------------------------------------------------------------------
(* The run: generateFullBlog (lines 268-287) and, inside its content       *)
(* stage, generateFullContent (lines 124-170).  A step ends at an await of *)
(* a gateway call and the next one begins when its response has arrived.   *)

MaxImages == 2

\* the break of line 153 written with > instead of >=
LoopContinues_OffByOne == hi <= Len(headings) /\ ~(imageCount > MaxImages)

\* the loop without the break of line 153
LoopContinues_NoBreak == hi <= Len(headings)

\* line 152 has a next heading and line 153 does not break
LoopContinues == hi <= Len(headings) /\ ~(imageCount >= MaxImages)

\* a client with an empty sitemap and one with two pages
Clients ==
    {[id |-> "c1", industry |-> "retail", websiteUrl |-> "https://c1.example",
      sitemapUrls |-> <<>>],
     [id |-> "c2", industry |-> "retail", websiteUrl |-> "https://c2.example",
      sitemapUrls |-> <<"https://c2.example/a", "https://c2.example/b">>]}

\* a client whose sitemap could not be loaded: App.tsx lines 31-40 leave the
\* property out
ClientWithoutSitemap ==
    [id |-> "c3", industry |-> "retail", websiteUrl |-> "https://c3.example"]

Unset == [unset |-> TRUE]

\* the locals of a run of generateFullBlog(c) that has not taken a step
InitialRun(c) ==
    [client |-> c, pc |-> "init", progress |-> <<>>, completed |-> <<>>,
     started |-> <<>>, requests |-> <<>>, lastCall |-> NoCall, topic |-> <<>>,
     details |-> Unset, outline |-> <<>>, content |-> <<>>, headings |-> <<>>,
     hi |-> 1, imageCount |-> 0, attempts |-> <<>>, featured |-> "",
     post |-> NoPost, thrown |-> NoError]

\* the executing run has the locals r
Resume(r) ==
    /\ client' = r.client
    /\ pc' = r.pc
    /\ progress' = r.progress
    /\ completed' = r.completed
    /\ started' = r.started
    /\ requests' = r.requests
    /\ lastCall' = r.lastCall
    /\ topic' = r.topic
    /\ details' = r.details
    /\ outline' = r.outline
    /\ content' = r.content
    /\ headings' = r.headings
    /\ hi' = r.hi
    /\ imageCount' = r.imageCount
    /\ attempts' = r.attempts
    /\ featured' = r.featured
    /\ post' = r.post
    /\ thrown' = r.thrown

\* the locals of the executing run
RunState ==
    [client |-> client, pc |-> pc, progress |-> progress, completed |-> completed,
     started |-> started, requests |-> requests, lastCall |-> lastCall,
     topic |-> topic, details |-> details, outline |-> outline,
     content |-> content, headings |-> headings, hi |-> hi,
     imageCount |-> imageCount, attempts |-> attempts, featured |-> featured,
     post |-> post, thrown |-> thrown]

RunInit(c) ==
    /\ client = c
    /\ pc = "init"
    /\ progress = <<>>
    /\ completed = <<>>
    /\ started = <<>>
    /\ requests = <<>>
    /\ lastCall = NoCall
    /\ topic = <<>>
    /\ details = Unset
    /\ outline = <<>>
    /\ content = <<>>
    /\ headings = <<>>
    /\ hi = 1
    /\ imageCount = 0
    /\ attempts = <<>>
    /\ featured = ""
    /\ post = NoPost
    /\ thrown = NoError

NoRun == [none |-> TRUE]
NoUrl == <<>>

\* the gateway that answers every request as it pleases
AnyGateway == [any |-> TRUE]

\* no crawl is running
CrawlIdle ==
    /\ web = <<>>
    /\ baseUrl = NoUrl
    /\ queue = <<>>
    /\ crawledUrls = {}
    /\ currentUrl = NoUrl
    /\ cpc = "idle"
    /\ fetched = <<>>
    /\ expanded = <<>>

\* one run of generateFullBlog, alone, against any gateway
Init ==
    /\ \E c \in Clients : RunInit(c)
    /\ gateway = AnyGateway
    /\ other = NoRun
    /\ CrawlIdle

\* const { title, angle, keywords } = ... (line 273)
title == Prop(details, "title")
angle == Prop(details, "angle")
keywords == Prop(details, "keywords")

LastRequest == requests[Len(requests)]

\* a deterministic gateway files its answers by the stage of the request and,
\* for an inline image, by the heading the image is asked for
RequestKey(req) ==
    IF req.contents.stage = "image" THEN req.contents.prompt ELSE req.contents.stage

\* the exchanges the latest request may get
Answers(libResults) ==
    IF gateway = AnyGateway THEN Exchanges(libResults)
    ELSE {gateway[RequestKey(LastRequest)]}

Exchange(stage, response, result) ==
    [stage |-> stage, response |-> response, result |-> result]

\* the run rejects with the error: nothing else of the run changes
Throw(error) ==
    /\ thrown' = error
    /\ pc' = "failed"

\* a message that never reaches the sink
updateProgress_Dropped(message) == progress' = progress

\* the caller-supplied sink is called with the message
updateProgress(message) == progress' = Append(progress, message)

\* line 269-270, up to the await
TopicCall ==
    /\ pc = "init"
    /\ updateProgress("Finding trending topic...")
    /\ started' = Append(started, "topic")
    /\ requests' = Append(requests,
          Request("gemini-2.5-flash",
                  [stage |-> "topic", clientId |-> client.id, industry |-> client.industry],
                  [tools |-> "googleSearch"]))
    /\ pc' = "awaitTopic"
    /\ UNCHANGED <<outside, client, completed, lastCall, topic, details, outline, content,
                   headings, hi, imageCount, attempts, featured, post, thrown>>

\* findTrendingTopic resumes with the response and returns or throws
TopicReturn ==
    /\ pc = "awaitTopic"
    /\ \E env \in Answers(TopicTexts) :
          LET response == Fetch(LastRequest, env)
              r == findTrendingTopic(response)
          IN /\ lastCall' = Exchange("topic", response, r)
             /\ IF r.ok
                THEN /\ topic' = r.value
                     /\ completed' = Append(completed, "topic")
                     /\ pc' = "gotTopic"
                     /\ UNCHANGED thrown
                ELSE /\ Throw(r.error)
                     /\ UNCHANGED <<topic, completed>>
    /\ UNCHANGED <<outside, client, progress, started, requests, details, outline, content,
                   headings, hi, imageCount, attempts, featured, post>>

\* lines 272-273, up to the await
DetailsCall ==
    /\ pc = "gotTopic"
    /\ updateProgress("Generating title, angle, and keywords for: topic")
    /\ started' = Append(started, "metadata")
    /\ requests' = Append(requests,
          Request("gemini-2.5-flash",
                  [stage |-> "metadata", clientId |-> client.id, topic |-> topic],
                  [responseMimeType |-> "application/json",
                   responseSchema |-> "blogDetailsSchema"]))
    /\ pc' = "awaitDetails"
    /\ UNCHANGED <<outside, client, completed, lastCall, topic, details, outline, content,
                   headings, hi, imageCount, attempts, featured, post, thrown>>

\* generateBlogDetails resumes: JSON.parse and return (lines 107-108)
DetailsReturn ==
    /\ pc = "awaitDetails"
    /\ \E env \in Answers(DetailsTexts) :
          LET response == Fetch(LastRequest, env)
              r == generateBlogDetails(response)
          IN /\ lastCall' = Exchange("metadata", response, r)
             /\ IF r.ok
                THEN /\ details' = r.value
                     /\ completed' = Append(completed, "metadata")
                     /\ pc' = "gotDetails"
                     /\ UNCHANGED thrown
                ELSE /\ Throw(r.error)
                     /\ UNCHANGED <<details, completed>>
    /\ UNCHANGED <<outside, client, progress, started, requests, topic, outline, content,
                   headings, hi, imageCount, attempts, featured, post>>

\* lines 273 (the destructuring), 275-276 up to the await
OutlineCall ==
    /\ pc = "gotDetails"
    /\ IF details = Null
       THEN /\ Throw([name |-> "TypeError",
                      message |-> <<"Cannot destructure property 'title' of null">>])
            /\ UNCHANGED <<progress, started, requests>>
       ELSE /\ updateProgress("Creating blog post outline...")
            /\ started' = Append(started, "outline")
            /\ requests' = Append(requests,
                  Request("gemini-2.5-flash",
                          [stage |-> "outline", title |-> title, angle |-> angle],
                          <<>>))
            /\ pc' = "awaitOutline"
            /\ UNCHANGED thrown
    /\ UNCHANGED <<outside, client, completed, lastCall, topic, details, outline, content,
                   headings, hi, imageCount, attempts, featured, post>>

OutlineReturn ==
    /\ pc = "awaitOutline"
    /\ \E env \in Answers(OutlineTexts) :
          LET response == Fetch(LastRequest, env)
              r == generateOutline(response)
          IN /\ lastCall' = Exchange("outline", response, r)
             /\ IF r.ok
                THEN /\ outline' = r.value
                     /\ completed' = Append(completed, "outline")
                     /\ pc' = "gotOutline"
                     /\ UNCHANGED thrown
                ELSE /\ Throw(r.error)
                     /\ UNCHANGED <<outline, completed>>
    /\ UNCHANGED <<outside, client, progress, started, requests, topic, details, content,
                   headings, hi, imageCount, attempts, featured, post>>

\* lines 278-279 and generateFullContent lines 125-146, up to the await
ContentCall ==
    /\ pc = "gotOutline"
    /\ updateProgress("Writing full blog post content...")
    /\ started' = Append(started, "content")
    /\ requests' = Append(requests,
          Request("gemini-2.5-flash",
                  [stage |-> "content", clientId |-> client.id, title |-> title,
                   outline |-> outline, urls |-> SitemapBlock(client)],
                  <<>>))
    /\ pc' = "awaitContent"
    /\ UNCHANGED <<outside, client, completed, lastCall, topic, details, outline, content,
                   headings, hi, imageCount, attempts, featured, post, thrown>>

\* lines 146-150: the text arrives, is cleaned and scanned for headings
ContentTextReturn ==
    /\ pc = "awaitContent"
    /\ \E env \in Answers(ContentTexts) :
          LET response == Fetch(LastRequest, env)
              r == callGeminiProxy(response)
          IN /\ lastCall' = Exchange("content", response, r)
             /\ IF r.ok
                THEN LET text == Trim(StripFence(Trim(r.value.text))) IN
                     /\ content' = text
                     /\ headings' = MatchHeadings(text)
                     /\ imageCount' = 0
                     /\ hi' = 1
                     /\ pc' = "loop"
                     /\ UNCHANGED thrown
                ELSE /\ Throw(r.error)
                     /\ UNCHANGED <<content, headings, imageCount, hi>>
    /\ UNCHANGED <<outside, client, progress, completed, started, requests, topic, details,
                   outline, attempts, featured, post>>

\* lines 152-157: the loop takes the next heading and calls generateInBodyImage
InBodyImageCall ==
    /\ pc = "loop"
    /\ LoopContinues
    /\ started' = Append(started, "image")
    /\ requests' = Append(requests,
          Request("imagen-3.0-generate-002",
                  [stage |-> "image", prompt |-> HeadingText(headings[hi]),
                   suffix |-> ImageSuffix],
                  ImageConfig))
    /\ pc' = "awaitInBodyImage"
    /\ UNCHANGED <<outside, client, progress, completed, lastCall, topic, details, outline,
                   content, headings, hi, imageCount, attempts, featured, post, thrown>>

\* the loop body without its try/catch: the error leaves generateFullContent
ImageCatch_Rethrow(error) ==
    /\ Throw(error)
    /\ UNCHANGED <<content, imageCount, completed, hi>>

\* a catch block that asks for the image of the same heading again
ImageCatch_Retry(error) ==
    /\ hi' = hi
    /\ pc' = "loop"
    /\ UNCHANGED <<content, imageCount, completed, thrown>>

\* lines 161-163: the catch block logs the error and the loop goes on
ImageCatch(error) ==
    /\ hi' = hi + 1
    /\ pc' = "loop"
    /\ UNCHANGED <<content, imageCount, completed, thrown>>

\* lines 157-163: the image is spliced in, or the error is caught and logged
InBodyImageReturn ==
    /\ pc = "awaitInBodyImage"
    /\ \E env \in Answers(LibImageResults) :
          LET response == Fetch(LastRequest, env)
              r == generateInBodyImage(response)
              heading == headings[hi]
          IN /\ lastCall' = Exchange("image", response, r)
             /\ attempts' = Append(attempts,
                   [h |-> hi, ok |-> r.ok, value |-> IF r.ok THEN r.value ELSE ""])
             /\ IF r.ok
                THEN /\ content' = ReplaceFirst(content, heading,
                            <<heading, NL, ImageTag(r.value, HeadingText(heading))>>)
                     /\ imageCount' = imageCount + 1
                     /\ completed' = Append(completed, "image")
                     /\ hi' = hi + 1
                     /\ pc' = "loop"
                     /\ UNCHANGED thrown
                ELSE ImageCatch(r.error)
    /\ UNCHANGED <<outside, client, progress, started, requests, topic, details, outline,
                   headings, featured, post>>

\* the loop is left (line 152 exhausted or line 153 break); line 166 to the await
FaqCall ==
    /\ pc = "loop"
    /\ ~LoopContinues
    /\ started' = Append(started, "faq")
    /\ requests' = Append(requests,
          Request("gemini-2.5-flash",
                  [stage |-> "faq", title |-> title, content |-> content],
                  [responseMimeType |-> "application/json",
                   responseSchema |-> "faqSchema"]))
    /\ pc' = "awaitFaq"
    /\ UNCHANGED <<outside, client, progress, completed, lastCall, topic, details, outline,
                   content, headings, hi, imageCount, attempts, featured, post, thrown>>

\* the FAQ block put in front of the document
AppendFaq_InFront(c, faqSection) == faqSection \o c

\* line 167: content += faqSection
AppendFaq(c, faqSection) == c \o faqSection

\* lines 166-169: generateFaqSection returns, generateFullContent returns
FaqReturn ==
    /\ pc = "awaitFaq"
    /\ \E env \in Answers(FaqTexts) :
          LET response == Fetch(LastRequest, env)
              r == generateFaqSection(response)
          IN /\ lastCall' = Exchange("faq", response, r)
             /\ IF r.ok
                THEN /\ content' = AppendFaq(content, r.value)
                     /\ completed' = completed \o <<"faq", "content">>
                     /\ pc' = "gotContent"
                     /\ UNCHANGED thrown
                ELSE /\ Throw(r.error)
                     /\ UNCHANGED <<content, completed>>
    /\ UNCHANGED <<outside, client, progress, started, requests, topic, details, outline,
                   headings, hi, imageCount, attempts, featured, post>>

\* the featured image requested as soon as title and angle are known
FeaturedCall_Early ==
    /\ pc = "gotOutline"
    /\ updateProgress("Generating featured image...")
    /\ started' = Append(started, "featured")
    /\ requests' = Append(requests,
          Request("imagen-3.0-generate-002",
                  [stage |-> "featured", title |-> title, angle |-> angle,
                   suffix |-> ImageSuffix],
                  ImageConfig))
    /\ pc' = "awaitFeatured"
    /\ UNCHANGED <<outside, client, completed, lastCall, topic, details, outline, content,
                   headings, hi, imageCount, attempts, featured, post, thrown>>

\* lines 281-282, up to the await
FeaturedCall ==
    /\ pc = "gotContent"
    /\ updateProgress("Generating featured image...")
    /\ started' = Append(started, "featured")
    /\ requests' = Append(requests,
          Request("imagen-3.0-generate-002",
                  [stage |-> "featured", title |-> title, angle |-> angle,
                   suffix |-> ImageSuffix],
                  ImageConfig))
    /\ pc' = "awaitFeatured"
    /\ UNCHANGED <<outside, client, completed, lastCall, topic, details, outline, content,
                   headings, hi, imageCount, attempts, featured, post, thrown>>

FeaturedReturn ==
    /\ pc = "awaitFeatured"
    /\ \E env \in Answers(LibImageResults) :
          LET response == Fetch(LastRequest, env)
              r == generateFeaturedImage(response)
          IN /\ lastCall' = Exchange("featured", response, r)
             /\ IF r.ok
                THEN /\ featured' = r.value
                     /\ completed' = Append(completed, "featured")
                     /\ pc' = "gotFeatured"
                     /\ UNCHANGED thrown
                ELSE /\ Throw(r.error)
                     /\ UNCHANGED <<featured, completed>>
    /\ UNCHANGED <<outside, client, progress, started, requests, topic, details, outline,
                   content, headings, hi, imageCount, attempts, post>>

\* the record assembled with the image of the last inline attempt in the
\* place of the featured image
AssemblePost_InlineImage ==
    [title |-> title, angle |-> angle, keywords |-> keywords,
     outline |-> outline, content |-> content,
     featuredImageBase64 |->
         IF attempts # <<>> /\ attempts[Len(attempts)].ok
         THEN attempts[Len(attempts)].value ELSE featured]

\* line 286: { title, angle, keywords, outline, content, featuredImageBase64 }
AssemblePost ==
    [title |-> title, angle |-> angle, keywords |-> keywords,
     outline |-> outline, content |-> content,
     featuredImageBase64 |-> featured]

\* lines 284-286
Finalize ==
    /\ pc = "gotFeatured"
    /\ updateProgress("Finalizing post...")
    /\ post' = AssemblePost
    /\ pc' = "done"
    /\ UNCHANGED <<outside, client, completed, started, requests, lastCall, topic, details,
                   outline, content, headings, hi, imageCount, attempts, featured,
                   thrown>>

Next ==
    \/ TopicCall
    \/ TopicReturn
    \/ DetailsCall
    \/ DetailsReturn
    \/ OutlineCall
    \/ OutlineReturn
    \/ ContentCall
    \/ ContentTextReturn
    \/ InBodyImageCall
    \/ InBodyImageReturn
    \/ FaqCall
    \/ FaqReturn
    \/ FeaturedCall
    \/ FeaturedReturn
    \/ Finalize

Spec == Init /\ [][Next]_vars

-----------------------------------------------------------------------------
(* Two runs of generateFullBlog in one page.  JavaScript runs one of them  *)
(* at a time and may pass to the other wherever the first is suspended at  *)
(* an await; every variable of lines 124-170 and 268-287 is a local of its *)
(* call, so each run finds its own locals when it resumes.                 *)

OkExchange(r) == [net |-> "ok", keySet |-> TRUE, lib |-> LibOk(r)]
RejectedExchange == [net |-> "reject", keySet |-> TRUE, lib |-> LibThrow]
ImageResult(b) == [generatedImages |-> <<[image |-> [imageBytes |-> b]]>>]

\* gateways that give the same answer to the same request
DeterministicGateways ==
    {[topic |-> OkExchange(<<TextTok("AI in retail")>>),
      metadata |-> OkExchange(m),
      outline |-> OkExchange(<<TextTok("## Intro")>>),
      content |-> OkExchange(b),
      A |-> ia,
      B |-> OkExchange(ImageResult("IMG2")),
      faq |-> f,
      featured |-> OkExchange(ImageResult("IMG2"))] :
        m \in {JsonObject(FullDetails),
               JsonObject(Restrict(FullDetails, RequiredDetails \ {"angle"}))},
        b \in {Body(<<H2("A"), H3("B"), H2("A")>>), Body(<<H2("A"), H2("A")>>)},
        ia \in {OkExchange(ImageResult("IMG1")), RejectedExchange},
        f \in {OkExchange(JsonObject([faqs |-> [i \in 1..MinFaqs |-> Faq]])),
               OkExchange(JsonGarbage)}}

InitTwoRuns ==
    /\ \E c \in Clients \cup {ClientWithoutSitemap} : RunInit(c)
    /\ other \in {InitialRun(c) : c \in Clients \cup {ClientWithoutSitemap}}
    /\ gateway \in DeterministicGateways
    /\ CrawlIdle

\* imageCount kept in a variable of the module, which both runs count in
Switch_SharedImageCount ==
    /\ other # NoRun
    /\ other' = RunState
    /\ Resume([other EXCEPT !.imageCount = imageCount])
    /\ UNCHANGED <<gateway, crawlVars>>

\* the executing run is suspended at its await and the other run goes on
Switch ==
    /\ other # NoRun
    /\ other' = RunState
    /\ Resume(other)
    /\ UNCHANGED <<gateway, crawlVars>>

NextTwoRuns ==
    \/ Next
    \/ Switch

SpecTwoRuns == InitTwoRuns /\ [][NextTwoRuns]_vars

-----------------------------------------------------------------------------
(* crawlWebsite (server.js lines 67-109).  A URL is the sequence of the    *)
(* pieces of its string: the scheme, the pieces of the host, then "/" and  *)
(* the path.  The origin of a URL is what stands before its first "/".     *)

HomeUrl == <<"https://", "example.com">>
HomePage == <<"https://", "example.com", "/">>
PageA == <<"https://", "example.com", "/", "a">>
LookalikePage == <<"https://", "example.com", ".evil.org", "/">>
ForeignPage == <<"https://", "other.org", "/">>

\* the href attributes a page may carry: paths, absolute URLs of two other
\* sites, and one that new URL() rejects
RootHref == <<"/">>
PathHref == <<"/", "a">>
LookalikeHref == <<"https://", "example.com", ".evil.org">>
ForeignHref == <<"https://", "other.org", "/">>
InvalidHref == <<"https://">>
Hrefs == {RootHref, PathHref, LookalikeHref, ForeignHref, InvalidHref}

HasPath(u) == \E i \in 1..Len(u) : u[i] = "/"

\* new URL(u).origin
Origin(u) ==
    IF HasPath(u)
    THEN SubSeq(u, 1, (CHOOSE i \in 1..Len(u) :
                          u[i] = "/" /\ \A j \in 1..(i - 1) : u[j] # "/") - 1)
    ELSE u

\* new URL(u).href: a URL without a path gets the path "/"
Href(u) == IF HasPath(u) THEN u ELSE u \o <<"/">>

\* new URL(href, base) throws a TypeError
Unparsable(href) == href = InvalidHref

\* new URL(href, base).href, base being an origin
Resolve(href, base) ==
    IF Head(href) = "https://" THEN Href(href) ELSE base \o href

\* String.prototype.startsWith
StartsWith(u, prefix) ==
    Len(prefix) <= Len(u) /\ SubSeq(u, 1, Len(prefix)) = prefix

\* line 98: absoluteUrl.startsWith(baseUrl)
SameSite(absoluteUrl, base) == StartsWith(absoluteUrl, base)

\* a loop that fetches whatever it takes from the queue
AlreadyCrawled_Never(u) == FALSE

\* line 74: crawledUrls.has(currentUrl)
AlreadyCrawled(u) == u \in crawledUrls

\* lines 94-102: what the each() callback pushes for the links of a page, up
\* to the first href that new URL() rejects (the TypeError leaves each() and
\* is caught at line 103)
RECURSIVE Pushed(_, _, _)
Pushed(links, base, crawled) ==
    IF links = <<>> \/ Unparsable(Head(links)) THEN <<>>
    ELSE LET absoluteUrl == Resolve(Head(links), base)
         IN (IF SameSite(absoluteUrl, base) /\ absoluteUrl \notin crawled
             THEN <<absoluteUrl>> ELSE <<>>)
            \o Pushed(Tail(links), base, crawled)

LinkLists(n) == UNION {[1..k -> Hrefs] : k \in 0..n}

\* the webs crawled: the home page with up to MaxLinks links, a page under it
\* that links nowhere, back to the home page, to itself or to the lookalike
\* site, and a page on each of the two other sites
Webs ==
    {[u \in {HomePage, PageA, LookalikePage, ForeignPage} |->
         CASE u = HomePage -> home
           [] u = PageA -> a
           [] u = LookalikePage -> <<ForeignHref, RootHref>>
           [] OTHER -> <<>>] :
       home \in LinkLists(MaxLinks),
       a \in {<<>>, <<RootHref>>, <<PathHref>>, <<LookalikeHref>>}}

\* lines 68-70: crawlWebsite(HomeUrl), called by the handler of /api/crawl
InitCrawl ==
    /\ RunInit(CHOOSE c \in Clients : c.id = "c1")
    /\ gateway = AnyGateway
    /\ other = NoRun
    /\ web \in Webs
    /\ baseUrl = Origin(HomeUrl)
    /\ queue = <<HomeUrl>>
    /\ crawledUrls = {}
    /\ currentUrl = NoUrl
    /\ cpc = "loop"
    /\ fetched = <<>>
    /\ expanded = <<>>

\* lines 72-76: the URL taken from the queue is in the set already
CrawlSkip ==
    /\ cpc = "loop"
    /\ queue # <<>>
    /\ AlreadyCrawled(Head(queue))
    /\ currentUrl' = Head(queue)
    /\ queue' = Tail(queue)
    /\ UNCHANGED <<runVars, gateway, other, web, baseUrl, crawledUrls, cpc,
                   fetched, expanded>>

\* lines 72-79: the URL taken from the queue is fetched
CrawlFetch ==
    /\ cpc = "loop"
    /\ queue # <<>>
    /\ ~AlreadyCrawled(Head(queue))
    /\ currentUrl' = Head(queue)
    /\ queue' = Tail(queue)
    /\ cpc' = "fetch"
    /\ UNCHANGED <<runVars, gateway, other, web, baseUrl, crawledUrls, fetched,
                   expanded>>

\* lines 79-87, 103-105: the fetch ends short of an HTML page (the response
\* is not ok, has no content type or another one, or the promise rejects);
\* each way the loop goes on with the next URL
CrawlFailure ==
    /\ cpc = "fetch"
    /\ fetched' = Append(fetched, [url |-> currentUrl, html |-> FALSE])
    /\ cpc' = "loop"
    /\ UNCHANGED <<runVars, gateway, other, web, baseUrl, queue, crawledUrls,
                   currentUrl, expanded>>

\* lines 79-91: an HTML page answers and its URL joins the set
CrawlResponse ==
    /\ cpc = "fetch"
    /\ Href(currentUrl) \in DOMAIN web
    /\ fetched' = Append(fetched, [url |-> currentUrl, html |-> TRUE])
    /\ crawledUrls' = crawledUrls \cup {currentUrl}
    /\ cpc' = "text"
    /\ UNCHANGED <<runVars, gateway, other, web, baseUrl, queue, currentUrl,
                   expanded>>

\* lines 91-102: the body arrives and the links of the page are queued
CrawlLinks ==
    /\ cpc = "text"
    /\ queue' = queue \o Pushed(web[Href(currentUrl)], baseUrl, crawledUrls)
    /\ expanded' = Append(expanded, currentUrl)
    /\ cpc' = "loop"
    /\ UNCHANGED <<runVars, gateway, other, web, baseUrl, crawledUrls, currentUrl,
                   fetched>>

\* lines 91, 103-105: reading the body rejects
CrawlBodyFailure ==
    /\ cpc = "text"
    /\ cpc' = "loop"
    /\ UNCHANGED <<runVars, gateway, other, web, baseUrl, queue, crawledUrls,
                   currentUrl, fetched, expanded>>

\* lines 72, 108: the queue is empty and the set is returned
CrawlReturn ==
    /\ cpc = "loop"
    /\ queue = <<>>
    /\ cpc' = "done"
    /\ UNCHANGED <<runVars, gateway, other, web, baseUrl, queue, crawledUrls,
                   currentUrl, fetched, expanded>>

NextCrawl ==
    \/ CrawlSkip
    \/ CrawlFetch
    \/ CrawlFailure
    \/ CrawlResponse
    \/ CrawlLinks
    \/ CrawlBodyFailure
    \/ CrawlReturn

SpecCrawl == InitCrawl /\ [][NextCrawl]_vars

\* every fetch settles and the continuation of an await is run
SpecCrawlFair == SpecCrawl /\ WF_vars(NextCrawl)

-----------------------------------------------------------------------------
(* Properties *)

Range(s) == {s[i] : i \in 1..Len(s)}

IsPrefix(s, t) == Len(s) <= Len(t) /\ s = SubSeq(t, 1, Len(s))

\* the stages the orchestrator calls, in the order of lines 269-282
MainStages == <<"topic", "metadata", "outline", "content", "featured">>
InnerStages == {"image", "faq"}

IsMain(x) == x \notin InnerStages
Main(s) == SelectSeq(s, IsMain)

\* the gateway exchange did not deliver a success response
TransportFailed(call) ==
    call.response.rejected \/ ~ResponseOk(call.response) \/ ~call.response.json

\* the stage of the latest exchange failed: the exchange failed in transport,
\* or the stage function threw on what it received
StageFailed(call) == TransportFailed(call) \/ ~call.result.ok

ImagePositions(s) == {i \in 1..Len(s) : s[i].k = "img"}
ImageRequests == {i \in 1..Len(requests) : requests[i].contents.stage = "image"}
FailedAttempts == {i \in 1..Len(attempts) : ~attempts[i].ok}
GoodAttempts == {i \in 1..Len(attempts) : attempts[i].ok}

\* C1: all-or-nothing.  A failure of the topic, metadata, outline, content
\* text, FAQ or featured-image stage ends the run in the failed state with
\* the stage's error thrown and no BlogPost; a run that has thrown never has
\* a BlogPost; a failed inline image is the one failure that leaves the run
\* going.
C1_AllOrNothing ==
    /\ (thrown # NoError => pc = "failed" /\ post = NoPost)
    /\ (pc = "failed" => thrown # NoError /\ post = NoPost)
    /\ (lastCall # NoCall /\ lastCall.stage # "image" /\ StageFailed(lastCall)
           => pc = "failed" /\ thrown = lastCall.result.error /\ post = NoPost)
    /\ (lastCall # NoCall /\ lastCall.stage = "image" /\ StageFailed(lastCall)
           => pc # "failed")

\* the FAQ stage fails after an inline image was already spliced in
C1_Witness ==
    /\ pc = "failed"
    /\ lastCall.stage = "faq"
    /\ StageFailed(lastCall)
    /\ imageCount > 0
    /\ post = NoPost

\* C2: the stages run in the fixed order topic, metadata, outline, content
\* (inline images and FAQ inside it), featured image, assemble.  The stages
\* started are a prefix of that order, a stage is started only when all before
\* it have returned, the inner stages run between the start and the return of
\* the content stage with the FAQ last, and a BlogPost exists only when all
\* five stages have returned.
C2_StageOrder ==
    LET ms == Main(started)
        mc == Main(completed)
    IN /\ IsPrefix(ms, MainStages)
       /\ IsPrefix(mc, ms)
       /\ Len(ms) <= Len(mc) + 1
       /\ \A i \in 1..Len(started) :
             started[i] \in InnerStages =>
                /\ \E j \in 1..(i - 1) : started[j] = "content"
                /\ \A j \in 1..(i - 1) : started[j] # "featured" /\ started[j] # "faq"
       /\ ("featured" \in Range(started) => "faq" \in Range(completed))
       /\ ("content" \in Range(completed) => "faq" \in Range(completed))
       /\ (post # NoPost => mc = MainStages /\ pc = "done")

C2_Witness ==
    /\ pc = "done"
    /\ post # NoPost
    /\ Len(attempts) >= 2
    /\ started[Len(started)] = "featured"

\* C3: a failed inline image is caught in the loop.  After it the run is not
\* failed and goes on in the loop; a run never fails with an inline-image
\* exchange as its latest exchange; and once an attempt has failed, the
\* images in the content are strictly fewer than the attempts made.
C3_ImageFailureAbsorbed ==
    /\ (lastCall # NoCall /\ lastCall.stage = "image" /\ ~lastCall.result.ok
           => pc \in {"loop", "awaitInBodyImage", "awaitFaq"} /\ thrown = NoError)
    /\ (pc = "failed" => lastCall.stage # "image")
    /\ (FailedAttempts # {}
           => Cardinality(ImagePositions(content)) < Len(attempts))
    /\ (post # NoPost /\ FailedAttempts # {}
           => Cardinality(ImagePositions(post.content)) < Len(attempts))

\* a run with a failed inline image and every other stage succeeding returns
\* a BlogPost
C3_Witness ==
    /\ pc = "done"
    /\ post # NoPost
    /\ FailedAttempts # {}
    /\ GoodAttempts # {}

C5_AtMostTwoAttempts ==
    /\ Cardinality(ImageRequests) <= 2
    /\ \A i \in 1..Len(attempts) : attempts[i].h <= 2

\* C5 amended: headings are attempted one by one in document order, each at
\* most once, until 2 attempts have succeeded or the headings are exhausted.
\* At most 2 attempts succeed, no attempt follows the second success, and the
\* number of image requests is at most 2 plus the number of failed attempts.
C5_AttemptsUntilTwoSucceed ==
    /\ \A i \in 1..Len(attempts) : attempts[i].h = i
    /\ Cardinality(ImageRequests) \in {Len(attempts), Len(attempts) + 1}
    /\ Cardinality(ImageRequests) <= Len(headings)
    /\ Cardinality(GoodAttempts) <= 2
    /\ imageCount = Cardinality(GoodAttempts)
    /\ Cardinality(ImageRequests) <= 2 + Cardinality(FailedAttempts)
    /\ \A n \in 1..Cardinality(ImageRequests) :
          Cardinality({j \in GoodAttempts : j < n}) < 2

\* the first heading's image fails and the third heading is attempted
C5_Witness ==
    /\ Len(attempts) = 3
    /\ ~attempts[1].ok
    /\ attempts[2].ok
    /\ attempts[3].ok
    /\ Cardinality(ImageRequests) = 3

\* position in s of its j-th heading
HeadingPos(s, j) ==
    CHOOSE p \in 1..Len(s) :
        IsHeading(s[p]) /\ Cardinality({q \in 1..p : IsHeading(s[q])}) = j

\* the heading occurrence attempts[i] was made for is directly followed by
\* the image generated from it, and by no second image
OwnImageFollows(i) ==
    LET hd == headings[attempts[i].h]
        p == HeadingPos(content, attempts[i].h)
    IN /\ p + 2 <= Len(content)
       /\ content[p] = hd
       /\ content[p + 1] = NL
       /\ content[p + 2] = ImageTag(attempts[i].value, HeadingText(hd))
       /\ ~(p + 4 <= Len(content) /\ content[p + 3] = NL /\ content[p + 4].k = "img")

\* C6: every inserted <img> stands immediately after the occurrence of the
\* heading that seeded it, and each heading that received an image is
\* directly followed by exactly its own image, also when two headings have
\* identical markup.
C6_ImageAfterOwnHeading == \A i \in GoodAttempts : OwnImageFollows(i)

\* the same placement when no two headings of the content have the same markup
C6_DistinctHeadingsPlaced ==
    (\A i, j \in 1..Len(headings) : i # j => headings[i] # headings[j])
        => C6_ImageAfterOwnHeading

\* the messages of lines 269-284, in order
ProgressMessages ==
    <<"Finding trending topic...",
      "Generating title, angle, and keywords for: topic",
      "Creating blog post outline...",
      "Writing full blog post content...",
      "Generating featured image...",
      "Finalizing post...">>

\* C7 as stated: messages are emitted after stage completions, so the number
\* of messages emitted never exceeds the number of stages completed.
C7_MessagesAfterCompletion == Len(progress) <= Len(Main(completed))

\* C7 amended: each message is emitted immediately before the stage it
\* announces is called, and the last one before the post is assembled.  The
\* messages emitted are as many as the stages started (one more once the post
\* is assembled), in the fixed order, and never more than the stages
\* completed plus one.
C7_MessagesBeforeStages ==
    /\ IsPrefix(progress, ProgressMessages)
    /\ Len(progress) = Len(Main(started)) + (IF pc = "done" THEN 1 ELSE 0)
    /\ Len(progress) <= Len(Main(completed)) + 1
    /\ (post # NoPost => progress = ProgressMessages)

\* the content stage is announced while only three stages have completed
C7_Witness ==
    /\ pc = "awaitContent"
    /\ Len(progress) = 4
    /\ Len(Main(completed)) = 3

\* C8: the metadata stage never returns a record that lacks title, angle or
\* keywords, and the outline stage is never requested with an undefined
\* title or angle.
C8_DetailsValidated ==
    /\ (lastCall # NoCall /\ lastCall.stage = "metadata" /\ lastCall.result.ok
           => RequiredDetails \subseteq DOMAIN lastCall.result.value)
    /\ \A i \in 1..Len(requests) :
          requests[i].contents.stage = "outline"
             => /\ requests[i].contents.title # Undefined
                /\ requests[i].contents.angle # Undefined

\* the backend answered the latest exchange with a failure status and a JSON
\* failure body {error, details?}
BackendFailure(call) ==
    /\ ~call.response.rejected
    /\ ~ResponseOk(call.response)
    /\ call.response.json
    /\ "error" \in DOMAIN call.response.body

\* C9: for a backend failure response the error raised by the client gateway
\* function carries the HTTP status and the message text of the failure body.
C9_ErrorCarriesBackendMessage ==
    lastCall # NoCall /\ BackendFailure(lastCall)
       => LET body == lastCall.response.body
              parts == Range(lastCall.result.error.message)
          IN /\ ~lastCall.result.ok
             /\ ToString(lastCall.response.status) \in parts
             /\ \/ body.error \in parts
                \/ ("details" \in DOMAIN body /\ body.details \in parts)

\* C10: an image call returns the bytes of a generated image or fails; it
\* fails whenever the gateway response holds no image bytes.
C10_ImageBytesOrError ==
    lastCall # NoCall /\ lastCall.stage \in {"image", "featured"}
       => /\ (lastCall.result.ok => lastCall.result.value \in ImageBytes)
          /\ (TransportFailed(lastCall)
                 \/ "imageBytes" \notin DOMAIN lastCall.response.body
                => ~lastCall.result.ok)

\* the request of the run made for the stage
RequestOf(stage) ==
    requests[CHOOSE i \in 1..Len(requests) : requests[i].contents.stage = stage]

\* C11: the BlogPost of a successful run carries the stage outputs unchanged:
\* title, angle and keywords are those of the parsed metadata (the ones the
\* outline and content requests were made with), outline and content are the
\* results of their stages, and featuredImageBase64 is what the featured-image
\* call returned, the image bytes of its gateway response.
C11_PostCarriesStageOutputs ==
    post # NoPost =>
       /\ post.title = Prop(details, "title")
       /\ post.angle = Prop(details, "angle")
       /\ post.keywords = Prop(details, "keywords")
       /\ post.title = RequestOf("outline").contents.title
       /\ post.angle = RequestOf("outline").contents.angle
       /\ post.title = RequestOf("content").contents.title
       /\ post.outline = outline
       /\ post.outline = RequestOf("content").contents.outline
       /\ post.content = content
       /\ lastCall.stage = "featured"
       /\ post.featuredImageBase64 = lastCall.result.value
       /\ ("imageBytes" \in DOMAIN lastCall.response.body
              => post.featuredImageBase64 = lastCall.response.body.imageBytes)

\* a post whose featured image differs from the inline image spliced last
C11_Witness ==
    /\ post # NoPost
    /\ attempts # <<>>
    /\ attempts[Len(attempts)].ok
    /\ attempts[Len(attempts)].value = "IMG1"
    /\ post.featuredImageBase64 = "IMG2"
    /\ post.title = "T"

\* the pages of the client's own site that the document links to
InternalLinks(s, c) ==
    {s[i].a : i \in {j \in 1..Len(s) : s[j].k = "a" /\ s[j].b = c.websiteUrl}}

SitemapUrls(c) == IF "sitemapUrls" \in DOMAIN c THEN Range(c.sitemapUrls) ELSE {}

NoSitemapMarker == <<"No sitemap URLs available.">>

\* C12: for a client whose sitemapUrls is empty or absent the content prompt
\* carries the marker 'No sitemap URLs available.' in place of the list, the
\* run fails only where a stage failed (or the metadata text was not an
\* object), and the content of the post has no internal link.
C12_EmptySitemapRun ==
    SitemapUrls(client) = {} =>
       /\ "content" \in Range(started)
             => RequestOf("content").contents.urls = NoSitemapMarker
       /\ pc = "failed" => (StageFailed(lastCall) \/ details = Null)
       /\ post # NoPost => InternalLinks(post.content, client) = {}

\* the part of C12 that the code keeps: the marker, and completion
C12_MarkerAndCompletion ==
    SitemapUrls(client) = {} =>
       /\ "content" \in Range(started)
             => RequestOf("content").contents.urls = NoSitemapMarker
       /\ pc = "failed" => (StageFailed(lastCall) \/ details = Null)

\* C13: the content of a returned BlogPost has no H1 tag, whatever text the
\* gateway returned for the content and FAQ requests.
C13_NoH1InContent ==
    post # NoPost => \A i \in 1..Len(post.content) : post.content[i].k # "h1"

\* C14: the internal links of the content of a returned BlogPost are all
\* among the client's sitemapUrls, whatever text the gateway returned.
C14_InternalLinksFromSitemap ==
    post # NoPost => InternalLinks(post.content, client) \subseteq SitemapUrls(client)

RequestsOf(stage) == {i \in 1..Len(requests) : requests[i].contents.stage = stage}

\* the heading each inline-image request was made for, in the order of the
\* requests: those of the finished attempts, then the one in flight
RequestedHeadings ==
    [i \in 1..Len(attempts) |-> attempts[i].h]
    \o (IF pc = "awaitInBodyImage" THEN <<hi>> ELSE <<>>)

\* C16: no gateway request is retried: the topic, metadata, outline, content,
\* FAQ and featured-image requests are each issued at most once in a run, the
\* inline-image requests go to strictly later headings each time (so at most
\* one per heading, failed or not), and a run that has failed has issued
\* nothing after the request that failed.
C16_NoRetry ==
    /\ \A stage \in {"topic", "metadata", "outline", "content", "faq", "featured"} :
          Cardinality(RequestsOf(stage)) <= 1
    /\ Cardinality(RequestsOf("image")) = Len(RequestedHeadings)
    /\ \A i, j \in 1..Len(RequestedHeadings) :
          i < j => RequestedHeadings[i] < RequestedHeadings[j]
    /\ \A i \in 1..Len(started) : requests[i].contents.stage = started[i]
    /\ Len(requests) = Len(started)
    /\ (pc = "failed" /\ lastCall # NoCall /\ StageFailed(lastCall))
          => LastRequest.contents.stage = lastCall.stage

\* a run that went on after a failed inline image and completed
C16_Witness ==
    /\ post # NoPost
    /\ Len(attempts) = 3
    /\ ~attempts[1].ok
    /\ headings[1] = headings[2]

\* the three question/answer pairs of the FAQ text that parses
ParsedFaqs == [i \in 1..MinFaqs |-> Faq]

\* C17: the FAQ stage is invoked at most once and only when the image loop is
\* over (no attempt in flight, no heading left or two images placed, its
\* request later than every inline-image request); once it has succeeded it
\* has been invoked exactly once and the content is the image-augmented
\* document it was invoked with followed by the FAQ block, which stays the
\* tail of the content up to the returned post.
C17_FaqOnceAtTail ==
    /\ Cardinality(RequestsOf("faq")) <= 1
    /\ pc \in {"loop", "awaitInBodyImage"} => RequestsOf("faq") = {}
    /\ RequestsOf("faq") # {} =>
          /\ ~LoopContinues
          /\ \A i \in RequestsOf("image") : \A j \in RequestsOf("faq") : i < j
          /\ Cardinality(RequestsOf("image")) = Len(attempts)
    /\ "faq" \in Range(completed) =>
          /\ Cardinality(RequestsOf("faq")) = 1
          /\ content = RequestOf("faq").contents.content \o FaqHtml(ParsedFaqs)
          /\ Cardinality(ImagePositions(RequestOf("faq").contents.content))
                = Cardinality(GoodAttempts)
    /\ post # NoPost =>
          post.content = RequestOf("faq").contents.content \o FaqHtml(ParsedFaqs)

\* a post whose document got an image, lost another, and ends with the FAQ
C17_Witness ==
    /\ post # NoPost
    /\ Cardinality(GoodAttempts) = 1
    /\ Cardinality(FailedAttempts) = 2
    /\ post.content[Len(post.content) - 1].k = "script"

\* how far a run has got
Position(r) == <<r.pc, Len(r.requests)>>

\* what a run shows of itself: its progress messages and its result
Shown(r) == [progress |-> r.progress, post |-> r.post, thrown |-> r.thrown]

\* the metadata request of the run, if it has made one
MetadataRequests(r) ==
    {r.requests[i] : i \in {j \in 1..Len(r.requests) :
                              r.requests[j].contents.stage = "metadata"}}

HtmlFetched == {fetched[i].url : i \in {j \in 1..Len(fetched) : fetched[j].html}}

\* the URLs passed to fetch
Fetched == {fetched[i].url : i \in 1..Len(fetched)}
              \cup (IF cpc = "fetch" THEN {currentUrl} ELSE {})

\* C18: every URL in the set crawlWebsite returns has the origin of the start
\* URL and was fetched with an HTML response, and no URL of another origin is
\* fetched, an origin that only begins with the start origin included.
C18_SameOriginOnly ==
    /\ crawledUrls \subseteq HtmlFetched
    /\ \A u \in crawledUrls \cup Fetched : Origin(u) = baseUrl

\* what the code keeps of C18: what is fetched begins with the start origin
C18_StartsWithOrigin ==
    /\ crawledUrls \subseteq HtmlFetched
    /\ \A u \in crawledUrls \cup Fetched : StartsWith(u, baseUrl)

NoRepeats(s) == \A i, j \in 1..Len(s) : i # j => s[i] # s[j]

\* C19: crawlWebsite terminates (the queue empties and the set is returned),
\* and on the way each URL joins the crawled set at most once and has its
\* links read at most once.
C19_CrawlTerminates ==
    /\ <>(cpc = "done" /\ queue = <<>>)
    /\ [](NoRepeats(SelectSeq(fetched, LAMBDA f : f.html)))
    /\ [](NoRepeats(expanded))

\* a finished crawl of a site with a cycle, a page linked twice, a failed
\* fetch and a page whose body was read
C19_Witness ==
    /\ cpc = "done"
    /\ web[HomePage] = <<PathHref, PathHref>>
    /\ web[PageA] = <<RootHref>>
    /\ Len(expanded) = 3
    /\ \E i \in 1..Len(fetched) : ~fetched[i].html

====
